---- MODULE Spec2Model ----
(***************************************************************************)
(* Model of src/intrusive_list.h: the link node list_element<Tag>, the     *)
(* container list<T, Tag> and its iterator.                                *)
(*                                                                         *)
(* Nodes are numbered: 1..NumElems are caller-owned elements, Sentinel is  *)
(* the node the constructor makes for `tail`, NULL is nullptr.  The fields *)
(* list::tail and list::head are pointers (lines 145-146), so they are     *)
(* variables holding a node number or NULL.  The constructor (148-151) is  *)
(* read as: tail points at a fresh unlinked node, head points at it too.   *)
(*                                                                         *)
(* Every member function is an operator from a state record to a state     *)
(* record, one LET step per C++ statement, in statement order.  A          *)
(* dereference of nullptr ends the run: fault becomes "null" and nothing   *)
(* else happens afterwards.                                                *)
(*                                                                         *)
(* All link nodes live in one memory (prev, next).  Besides the list under *)
(* test (head, tail, size) there is a second list of the same type,        *)
(* `other` (the destination of a move, the source of a splice), with       *)
(* Sentinel2 as the node its default constructor makes, and a list of a    *)
(* second tag, `lb`, whose nodes are the list_element<TagB> bases TagB(e)  *)
(* of the same elements and the sentinel SentinelB.  `it` is one iterator  *)
(* into the list under test.                                               *)
(***************************************************************************)
EXTENDS Integers, Sequences, FiniteSets, TLC

NumElems == 3
MaxSize == 4
NumTagged == 2

NULL == 0
Elems == 1..NumElems
Sentinel == NumElems + 1
Sentinel2 == NumElems + 2

(* static_cast<list_element<TagB>*>(&elem) with both tags naming one base *)
TagBSameBase(e) == e

(* static_cast<list_element<TagB>*>(&elem): the second base of element e *)
TagB(e) == NumElems + 2 + e
SentinelB == 2 * NumElems + 3
Nodes == 1..SentinelB
Ptrs == Nodes \cup {NULL}

VARIABLES prev, next, head, tail, size, fault, ret, pushed, pure,
          other, lb, it

vars == <<prev, next, head, tail, size, fault, ret, pushed, pure,
          other, lb, it>>

st == [prev |-> prev, next |-> next, head |-> head, tail |-> tail,
       size |-> size, fault |-> fault, ret |-> ret]

(* nullptr dereference: the process dies in the state it was in. *)
Crash(s) == [s EXCEPT !.fault = "null"]

(* unlink without `prev = nullptr` (line 39) *)
UnlinkKeepsPrev(s, n) ==
    LET s1 == IF s.prev[n] # NULL
              THEN [s EXCEPT !.next[s.prev[n]] = s.next[n]] ELSE s
        s2 == IF s1.next[n] # NULL
              THEN [s1 EXCEPT !.prev[s1.next[n]] = s1.prev[n]] ELSE s1
    IN  [s2 EXCEPT !.next[n] = NULL]

(* unlink without `next = nullptr` (line 38) *)
UnlinkKeepsNext(s, n) ==
    LET s1 == IF s.prev[n] # NULL
              THEN [s EXCEPT !.next[s.prev[n]] = s.next[n]] ELSE s
        s2 == IF s1.next[n] # NULL
              THEN [s1 EXCEPT !.prev[s1.next[n]] = s1.prev[n]] ELSE s1
    IN  [s2 EXCEPT !.prev[n] = NULL]

(* list_element::unlink *)
Unlink(s, n) ==
    LET s1 == IF s.prev[n] # NULL
              THEN [s EXCEPT !.next[s.prev[n]] = s.next[n]] ELSE s
        s2 == IF s1.next[n] # NULL
              THEN [s1 EXCEPT !.prev[s1.next[n]] = s1.prev[n]] ELSE s1
        s3 == [s2 EXCEPT !.next[n] = NULL]
    IN  [s3 EXCEPT !.prev[n] = NULL]

(* list::list() *)
Construct ==
    [prev |-> [n \in Nodes |-> NULL], next |-> [n \in Nodes |-> NULL],
     head |-> Sentinel, tail |-> Sentinel, size |-> 0,
     fault |-> "none", ret |-> NULL]

(* list::push_back *)
PushBack(s, e) ==
    IF s.size = 0
    THEN IF s.tail = NULL THEN Crash(s)
         ELSE LET s1 == [s EXCEPT !.head = e]
                  s2 == [s1 EXCEPT !.prev[s1.tail] = s1.head]
                  s3 == [s2 EXCEPT !.next[s2.head] = s2.tail]
              IN  [s3 EXCEPT !.size = 1]
    ELSE IF s.tail = NULL THEN Crash(s)
         ELSE IF s.prev[s.tail] = NULL THEN Crash(s)
         ELSE LET s1 == [s EXCEPT !.next[s.prev[s.tail]] = e]
                  s2 == [s1 EXCEPT !.prev[e] = s1.prev[s1.tail]]
                  s3 == [s2 EXCEPT !.prev[s2.tail] = e]
              IN  [s3 EXCEPT !.size = s3.size + 1]

(* list::pop_back *)
PopBack(s) ==
    IF s.size = 0 THEN s
    ELSE IF s.size = 1
    THEN IF s.head = NULL THEN Crash(s)
         ELSE LET s1 == [s EXCEPT !.next[s.head] = NULL]
                  s2 == [s1 EXCEPT !.head = s1.tail]
              IN  [s2 EXCEPT !.size = 0]
    ELSE IF s.tail = NULL THEN Crash(s)
         ELSE LET s1 == [s EXCEPT !.tail = s.prev[s.tail]]
              IN  IF s1.tail = NULL THEN Crash(s)
                  ELSE IF s1.next[s1.tail] = NULL THEN Crash(s)
                  ELSE LET s2 == [s1 EXCEPT !.prev[s1.next[s1.tail]] = NULL]
                           s3 == [s2 EXCEPT !.next[s2.tail] = NULL]
                       IN  [s3 EXCEPT !.size = s3.size - 1]

(* list::push_front *)
PushFront(s, e) ==
    IF s.size = 0
    THEN LET s1 == [s EXCEPT !.tail = e]
             s2 == [s1 EXCEPT !.head = e]
             s3 == [s2 EXCEPT !.prev[s2.tail] = s2.head]
             s4 == [s3 EXCEPT !.next[s3.head] = s3.tail]
         IN  [s4 EXCEPT !.size = 1]
    ELSE IF s.head = NULL THEN Crash(s)
         ELSE LET s1 == [s EXCEPT !.prev[s.head] = e]
                  s2 == [s1 EXCEPT !.next[e] = s1.head]
              IN  [s2 EXCEPT !.head = e]

(* list::pop_front *)
PopFront(s) ==
    IF s.size = 0 THEN s
    ELSE IF s.size = 1
    THEN IF s.tail = NULL \/ s.head = NULL THEN Crash(s)
         ELSE LET s1 == [s EXCEPT !.prev[s.tail] = NULL]
                  s2 == [s1 EXCEPT !.next[s1.head] = NULL]
                  s3 == [s2 EXCEPT !.tail = NULL]
                  s4 == [s3 EXCEPT !.head = NULL]
              IN  [s4 EXCEPT !.size = 0]
    ELSE IF s.head = NULL THEN Crash(s)
         ELSE LET s1 == [s EXCEPT !.head = s.next[s.head]]
              IN  IF s1.head = NULL THEN Crash(s)
                  ELSE IF s1.prev[s1.head] = NULL THEN Crash(s)
                  ELSE LET s2 == [s1 EXCEPT !.next[s1.prev[s1.head]] = NULL]
                           s3 == [s2 EXCEPT !.prev[s2.head] = NULL]
                       IN  [s3 EXCEPT !.size = s3.size - 1]

(* list::front, list::back: the node the returned reference is cast from *)
Front(s) == s.head

Back(s) == s.tail

(* list::empty *)
Empty(s) == s.size = 0

(* list::begin, list::end: the node the returned iterator holds.  end() is *)
(* list_iterator(tail)++, and postfix ++ returns the copy made before the  *)
(* step, so the iterator holds tail.                                       *)
Begin(s) == s.head

End(s) == s.tail

(* list_iterator::operator++ (prefix): current = current->next *)
IterNext(s, n) == s.next[n]

(* list::insert *)
Insert(s, pos, e) ==
    LET s1 == IF s.prev[pos] # NULL
              THEN [s EXCEPT !.next[s.prev[pos]] = e] ELSE s
        s2 == IF s1.next[pos] # NULL
              THEN [s1 EXCEPT !.prev[s1.next[pos]] = e] ELSE s1
        s3 == [s2 EXCEPT !.prev[e] = s2.prev[pos]]
        s4 == [s3 EXCEPT !.next[e] = s3.next[pos]]
    IN  [s4 EXCEPT !.ret = e]

(* list::erase *)
Erase(s, pos) ==
    LET prev_cpy == s.prev[pos]
        next_cpy == s.next[pos]
        s1 == Unlink(s, pos)
    IN  IF prev_cpy # NULL THEN [s1 EXCEPT !.ret = prev_cpy]
        ELSE IF next_cpy # NULL THEN [s1 EXCEPT !.ret = next_cpy]
        ELSE [s1 EXCEPT !.ret = NULL]

(* list::clear: the while loop, one iteration per unfolding.  Running out  *)
(* of fuel stands for a loop that does not end.                            *)
ClearFuel == 2 * SentinelB + 2

RECURSIVE ClearLoop(_, _, _)
ClearLoop(s, front, fuel) ==
    IF front = NULL THEN s
    ELSE IF fuel = 0 THEN [s EXCEPT !.fault = "hang"]
    ELSE LET front_next == s.next[front]
         IN  ClearLoop(Unlink(s, front), front_next, fuel - 1)

Clear(s) == ClearLoop(s, s.head, ClearFuel)

(* for (it = begin(); it != end(); ++it): the elements visited, and        *)
(* whether the loop reached end() (ok) rather than stepping onto nullptr   *)
(* or going round a cycle.                                                 *)
RECURSIVE IterFrom(_, _, _)
IterFrom(s, n, fuel) ==
    IF n = End(s) THEN [elems |-> <<>>, ok |-> TRUE]
    ELSE IF n = NULL \/ fuel = 0 THEN [elems |-> <<>>, ok |-> FALSE]
    ELSE LET r == IterFrom(s, IterNext(s, n), fuel - 1)
         IN  [elems |-> <<n>> \o r.elems, ok |-> r.ok]

Iterate(s) == IterFrom(s, Begin(s), SentinelB + 1)

(* Nodes an iterator can stand on: reached from begin() by ++, or end(). *)
RECURSIVE ReachFrom(_, _, _)
ReachFrom(s, n, seen) ==
    IF n = NULL \/ n \in seen THEN seen
    ELSE ReachFrom(s, IterNext(s, n), seen \cup {n})

ValidPos(s) == (ReachFrom(s, Begin(s), {}) \cup {End(s)}) \ {NULL}

(* Precondition "elem currently unlinked": both fields null and nothing    *)
(* in the list refers to it.                                               *)
Unlinked(s, e) ==
    /\ s.prev[e] = NULL /\ s.next[e] = NULL
    /\ s.head # e /\ s.tail # e
    /\ \A n \in Nodes : s.prev[n] # e /\ s.next[n] # e

Set(s) ==
    /\ prev' = s.prev /\ next' = s.next /\ head' = s.head /\ tail' = s.tail
    /\ size' = s.size /\ fault' = s.fault /\ ret' = s.ret
    /\ UNCHANGED <<other, lb, it>>

Init ==
    /\ prev = Construct.prev /\ next = Construct.next
    /\ head = Construct.head /\ tail = Construct.tail
    /\ size = Construct.size /\ fault = Construct.fault /\ ret = Construct.ret
    /\ pushed = <<>> /\ pure = TRUE
    /\ other = [head |-> NULL, tail |-> NULL, size |-> 0, via |-> "none"]
    /\ lb = [head |-> SentinelB, tail |-> SentinelB, size |-> 0]
    /\ it = NULL

Other == pushed' = <<>> /\ pure' = FALSE

push_back(e) ==
    /\ fault = "none" /\ size < MaxSize /\ Unlinked(st, e)
    /\ Set(PushBack(st, e))
    /\ pure' = pure
    /\ pushed' = IF pure THEN Append(pushed, e) ELSE pushed

push_front(e) ==
    /\ fault = "none" /\ size < MaxSize /\ Unlinked(st, e)
    /\ Set(PushFront(st, e)) /\ Other

pop_back == fault = "none" /\ Set(PopBack(st)) /\ Other

pop_front == fault = "none" /\ Set(PopFront(st)) /\ Other

front ==
    /\ fault = "none" /\ ~Empty(st)
    /\ Set([st EXCEPT !.ret = Front(st)]) /\ UNCHANGED <<pushed, pure>>

back ==
    /\ fault = "none" /\ ~Empty(st)
    /\ Set([st EXCEPT !.ret = Back(st)]) /\ UNCHANGED <<pushed, pure>>

insert(pos, e) ==
    /\ fault = "none" /\ pos \in ValidPos(st) /\ Unlinked(st, e)
    /\ Set(Insert(st, pos, e)) /\ Other

erase(pos) ==
    /\ fault = "none" /\ pos \in ValidPos(st) \ {End(st)}
    /\ Set(Erase(st, pos)) /\ Other

clear == fault = "none" /\ Set(Clear(st)) /\ Other

Next ==
    \/ \E e \in Elems : push_back(e)
    \/ \E e \in Elems : push_front(e)
    \/ pop_back
    \/ pop_front
    \/ front
    \/ back
    \/ \E pos \in Nodes, e \in Elems : insert(pos, e)
    \/ \E pos \in Nodes : erase(pos)
    \/ clear

Spec == Init /\ [][Next]_vars

TypeOK ==
    /\ prev \in [Nodes -> Ptrs] /\ next \in [Nodes -> Ptrs]
    /\ head \in Ptrs /\ tail \in Ptrs /\ size \in 0..MaxSize
    /\ fault \in {"none", "null", "hang"} /\ ret \in Ptrs
(***************************************************************************)
(* A second list of the same type: move construction, move assignment,     *)
(* splice.                                                                 *)
(***************************************************************************)
(* The state as seen from `other`: same memory, other's head, tail, size. *)
OtherView ==
    [prev |-> prev, next |-> next, head |-> other.head, tail |-> other.tail,
     size |-> other.size, fault |-> fault, ret |-> ret]

(* via: the last constructor, assignment or splice that involved `other` *)
SetOther(s, via) ==
    /\ prev' = s.prev /\ next' = s.next /\ fault' = s.fault /\ ret' = s.ret
    /\ other' = [head |-> s.head, tail |-> s.tail, size |-> s.size, via |-> via]
    /\ UNCHANGED <<head, tail, size, lb, it>>

(* list::list(list&& l): the three fields are copied (std::move of a       *)
(* pointer or an int is a copy); the body is empty, so l keeps its fields  *)
(* and no node is made for the new list.                                   *)
MoveConstruct(l) ==
    [prev |-> l.prev, next |-> l.next,
     head |-> l.head, tail |-> l.tail, size |-> l.size,
     fault |-> l.fault, ret |-> l.ret]

(* list::operator=(list&& l_): `return l_;`, *this is not assigned. *)
MoveAssign(this, l) == this

(* list::splice: the body is empty.  The pair (this list, other list). *)
Splice(this, o, pos, first, last) == <<this, o>>

(* The nodes from first up to, not including, last; ok if last is reached *)
RECURSIVE RangeFrom(_, _, _, _)
RangeFrom(s, n, last, fuel) ==
    IF n = last THEN [elems |-> <<>>, ok |-> TRUE]
    ELSE IF n = NULL \/ fuel = 0 THEN [elems |-> <<>>, ok |-> FALSE]
    ELSE LET r == RangeFrom(s, IterNext(s, n), last, fuel - 1)
         IN  [elems |-> <<n>> \o r.elems, ok |-> r.ok]

Range(s, first, last) == RangeFrom(s, first, last, SentinelB + 1)

other_construct ==
    /\ fault = "none" /\ other.via = "none"
    /\ SetOther([Construct EXCEPT !.head = Sentinel2, !.tail = Sentinel2,
                                  !.prev = prev, !.next = next, !.ret = ret],
                "default")
    /\ UNCHANGED <<pushed, pure>>

move_construct ==
    /\ fault = "none" /\ other.via = "none"
    /\ SetOther(MoveConstruct(st), "move_ctor")
    /\ UNCHANGED <<pushed, pure>>

move_assign ==
    /\ fault = "none" /\ other.via # "none"
    /\ SetOther(MoveAssign(OtherView, st), "move_assign")
    /\ UNCHANGED <<pushed, pure>>

other_push_back(e) ==
    /\ fault = "none" /\ other.via # "none" /\ other.size < MaxSize
    /\ Unlinked(st, e) /\ Unlinked(OtherView, e)
    /\ SetOther(PushBack(OtherView, e), other.via) /\ Other

other_clear ==
    /\ fault = "none" /\ other.via # "none"
    /\ SetOther(Clear(OtherView), other.via) /\ Other

splice(pos, first, last) ==
    /\ fault = "none" /\ other.via # "none" /\ other.tail # tail
    /\ pos \in ValidPos(st)
    /\ first \in ValidPos(OtherView) /\ last \in ValidPos(OtherView)
    /\ Range(OtherView, first, last).ok
    /\ LET r == Splice(st, OtherView, pos, first, last)
       IN  /\ head' = r[1].head /\ tail' = r[1].tail /\ size' = r[1].size
           /\ prev' = r[2].prev /\ next' = r[2].next
           /\ fault' = r[2].fault /\ ret' = r[2].ret
           /\ other' = [head |-> r[2].head, tail |-> r[2].tail,
                        size |-> r[2].size, via |-> "splice"]
    /\ UNCHANGED <<lb, it>> /\ Other

NextMove ==
    \/ \E e \in Elems : push_back(e)
    \/ \E e \in Elems : push_front(e)
    \/ clear
    \/ other_construct
    \/ move_construct
    \/ move_assign
    \/ \E e \in Elems : other_push_back(e)
    \/ other_clear
    \/ \E pos \in ValidPos(st) :
          \E first, last \in ValidPos(OtherView) : splice(pos, first, last)

SpecMove == Init /\ [][NextMove]_vars

(***************************************************************************)
(* The chain alone: the operations that rewrite links (SpecChain), and     *)
(* unlink() called on an element by its owner (SpecUnlink).  Return values *)
(* are not recorded.                                                       *)
(***************************************************************************)
SetChain(s) ==
    /\ prev' = s.prev /\ next' = s.next /\ head' = s.head /\ tail' = s.tail
    /\ size' = s.size /\ fault' = s.fault
    /\ UNCHANGED <<ret, pushed, pure, other, lb, it>>

chain_push_back(e) ==
    /\ fault = "none" /\ size < MaxSize /\ Unlinked(st, e)
    /\ SetChain(PushBack(st, e))

chain_push_front(e) ==
    /\ fault = "none" /\ size < MaxSize /\ Unlinked(st, e)
    /\ SetChain(PushFront(st, e))

chain_pop_back == fault = "none" /\ SetChain(PopBack(st))

chain_pop_front == fault = "none" /\ SetChain(PopFront(st))

chain_insert(pos, e) ==
    /\ fault = "none" /\ pos \in ValidPos(st) /\ Unlinked(st, e)
    /\ SetChain(Insert(st, pos, e))

chain_erase(pos) ==
    /\ fault = "none" /\ pos \in ValidPos(st) \ {End(st)}
    /\ SetChain(Erase(st, pos))

chain_clear == fault = "none" /\ SetChain(Clear(st))

unlink(e) == fault = "none" /\ SetChain(Unlink(st, e))

NextChain ==
    \/ \E e \in Elems : chain_push_back(e)
    \/ \E e \in Elems : chain_push_front(e)
    \/ chain_pop_back
    \/ chain_pop_front
    \/ \E pos \in ValidPos(st), e \in Elems : chain_insert(pos, e)
    \/ \E pos \in ValidPos(st) : chain_erase(pos)
    \/ chain_clear

SpecChain == Init /\ [][NextChain]_vars

NextUnlink ==
    \/ \E e \in Elems : chain_push_back(e)
    \/ \E e \in Elems : chain_push_front(e)
    \/ \E pos \in ValidPos(st) : chain_erase(pos)
    \/ \E e \in Elems : unlink(e)

SpecUnlink == Init /\ [][NextUnlink]_vars

(***************************************************************************)
(* A list of a second tag over the same elements.                          *)
(***************************************************************************)
(* The elements that embed both bases *)
Tagged == 1..NumTagged

(* The state as seen from the list of the second tag *)
BView ==
    [prev |-> prev, next |-> next, head |-> lb.head, tail |-> lb.tail,
     size |-> lb.size, fault |-> fault, ret |-> ret]

SetB(s) ==
    /\ prev' = s.prev /\ next' = s.next /\ fault' = s.fault
    /\ lb' = [head |-> s.head, tail |-> s.tail, size |-> s.size]
    /\ UNCHANGED <<head, tail, size, ret, pushed, pure, other, it>>

b_push_back(e) ==
    /\ fault = "none" /\ lb.size < MaxSize /\ Unlinked(BView, TagB(e))
    /\ SetB(PushBack(BView, TagB(e)))

b_pop_back == fault = "none" /\ SetB(PopBack(BView))

b_pop_front == fault = "none" /\ SetB(PopFront(BView))

b_erase(pos) ==
    /\ fault = "none" /\ pos \in ValidPos(BView) \ {End(BView)}
    /\ SetB(Erase(BView, pos))

b_clear == fault = "none" /\ SetB(Clear(BView))

b_unlink(e) == fault = "none" /\ SetB(Unlink(BView, TagB(e)))

StepA ==
    \/ \E e \in Tagged : chain_push_back(e)
    \/ \E e \in Tagged : unlink(e)

StepB ==
    \/ \E e \in Tagged : b_push_back(e)
    \/ b_pop_back
    \/ b_pop_front
    \/ \E pos \in ValidPos(BView) : b_erase(pos)
    \/ b_clear
    \/ \E e \in Tagged : b_unlink(e)

NextTags == StepA \/ StepB

SpecTags == Init /\ [][NextTags]_vars

(***************************************************************************)
(* The iterator `it` over the list under test.                             *)
(***************************************************************************)
(* list_iterator::operator-- (prefix): current = current->prev *)
IterPrev(s, n) == s.prev[n]

(* list_iterator::operator++(int): the new current and the returned copy *)
PostInc(s, n) == [current |-> s.next[n], copy |-> n]

(* list_iterator::operator--(int): line 109 reads current->next *)
PostDec(s, n) == [current |-> s.next[n], copy |-> n]

SetIt(cur, r) ==
    /\ it' = cur /\ ret' = r
    /\ UNCHANGED <<prev, next, head, tail, size, fault, pushed, pure, other, lb>>

it_begin == fault = "none" /\ SetIt(Begin(st), ret)

it_end == fault = "none" /\ SetIt(End(st), ret)

pre_inc == fault = "none" /\ it # NULL /\ SetIt(IterNext(st, it), IterNext(st, it))

pre_dec == fault = "none" /\ it # NULL /\ SetIt(IterPrev(st, it), IterPrev(st, it))

post_inc ==
    fault = "none" /\ it # NULL /\ SetIt(PostInc(st, it).current, PostInc(st, it).copy)

post_dec ==
    fault = "none" /\ it # NULL /\ SetIt(PostDec(st, it).current, PostDec(st, it).copy)

NextIter ==
    \/ \E e \in Elems : push_back(e)
    \/ \E e \in Elems : push_front(e)
    \/ it_begin
    \/ it_end
    \/ pre_dec
    \/ post_dec
    \/ pre_inc
    \/ post_inc

SpecIter == Init /\ [][NextIter]_vars

(***************************************************************************)
(* Properties                                                              *)
(***************************************************************************)
IterNow == Iterate(st)

NoDup(seq) == \A i, j \in 1..Len(seq) : seq[i] = seq[j] => i = j

Last(seq) == seq[Len(seq)]

ListFields == <<prev, next, head, tail, size>>

(* The chain of section 3 of the specification. *)
WellFormed ==
    /\ tail = Sentinel
    /\ next[Sentinel] = NULL
    /\ IterNow.ok
    /\ NoDup(IterNow.elems)
    /\ \A i \in 1..Len(IterNow.elems) : IterNow.elems[i] \in Elems
    /\ prev[Sentinel] = IF IterNow.elems = <<>> THEN NULL ELSE Last(IterNow.elems)
    /\ \A i \in 1..Len(IterNow.elems) :
          LET x == IterNow.elems[i] IN next[x] # NULL /\ prev[next[x]] = x

(* "A list holding e1..en": either it was built from a new list by         *)
(* push_back calls only (Held is then the arguments in call order), or     *)
(* iteration reaches end() and size agrees with it.                        *)
Holding == fault = "none" /\ (pure \/ (IterNow.ok /\ size = Len(IterNow.elems)))

Held == IF pure THEN pushed ELSE IterNow.elems

(* C1: after n push_back calls of distinct unlinked elements onto a new    *)
(* list, iteration from begin() to end() yields those n elements in        *)
(* insertion order and size is n.                                          *)
C1_PushBackOrder ==
    pure => /\ fault = "none"
            /\ IterNow.ok
            /\ IterNow.elems = pushed
            /\ size = Len(pushed)

(* C2: size == 0 if and only if head refers to the sentinel (tail). *)
C2_EmptyIffHeadIsTail == (size = 0) <=> (head = tail)

(* C3: the chain is well formed in every reachable state: the sentinel is  *)
(* the same node for the list's lifetime and is no real element, its next  *)
(* is null, its prev is the last real element (null if empty), following   *)
(* next from head visits each real element once and then the sentinel, and *)
(* x.next.prev == x for every real element x.                              *)
C3_ChainWellFormed == WellFormed

(* C4: size equals the number of real elements visited when walking next   *)
(* from head up to the sentinel.                                           *)
C4_SizeIsCount == size = Len(IterNow.elems)

(* C5: push_front(elem) increases size by exactly 1, makes front() elem,   *)
(* and iteration yields elem followed by the previous elements in order.   *)
C5_PushFront ==
    [][\A e \in Elems :
          push_front(e) =>
             /\ fault' = "none"
             /\ size' = size + 1
             /\ Front(st)' = e
             /\ IterNow'.ok
             /\ IterNow'.elems = <<e>> \o IterNow.elems]_vars

(* C6: on a non-empty list front() returns the first real element and      *)
(* back() the last real element, never the sentinel, neither call changes  *)
(* the list, and back() is elem immediately after push_back(elem).         *)
C6_FrontBack ==
    [][/\ front /\ IterNow.ok /\ IterNow.elems # <<>> =>
             ret' = Head(IterNow.elems) /\ UNCHANGED ListFields
       /\ back /\ IterNow.ok /\ IterNow.elems # <<>> =>
             ret' = Last(IterNow.elems) /\ ret' \in Elems /\ UNCHANGED ListFields
       /\ \A e \in Elems : push_back(e) => Back(st)' = e]_vars

(* C7: pop_front() on a list holding e1..en, n >= 1, removes exactly e1:   *)
(* size becomes n-1 and iteration yields e2..en; for n == 1 the result is  *)
(* a valid empty list; on an empty list nothing changes.                   *)
C7_PopFront ==
    [][pop_front /\ Holding =>
          IF Held = <<>>
          THEN UNCHANGED ListFields
          ELSE /\ fault' = "none"
               /\ size' = Len(Held) - 1
               /\ IterNow'.ok
               /\ IterNow'.elems = Tail(Held)
               /\ Len(Held) = 1 => WellFormed' /\ head' = Sentinel]_vars

(* C8: pop_back() on a list holding e1..en, n >= 1, removes exactly en:    *)
(* size becomes n-1, iteration yields e1..e(n-1) and the sentinel is the   *)
(* same node as before; on an empty list nothing changes.                  *)
C8_PopBack ==
    [][pop_back /\ Holding =>
          IF Held = <<>>
          THEN UNCHANGED ListFields
          ELSE /\ fault' = "none"
               /\ size' = Len(Held) - 1
               /\ IterNow'.ok
               /\ IterNow'.elems = SubSeq(Held, 1, Len(Held) - 1)
               /\ tail' = tail]_vars

(* C9: erase(pos) at an element that is neither first nor last of a list   *)
(* of size >= 3 decreases size by exactly 1 and leaves the former          *)
(* predecessor p and successor s with p.next == s and s.prev == p.         *)
C9_EraseMiddle ==
    [][\A pos \in Elems :
          (/\ erase(pos)
           /\ size >= 3
           /\ pos # head
           /\ prev[pos] \in Elems
           /\ next[pos] \in Elems /\ next[pos] # End(st)) =>
             /\ size' = size - 1
             /\ next'[prev[pos]] = next[pos]
             /\ prev'[next[pos]] = prev[pos]]_vars

(* C10: erase(pos) returns an iterator to the element that followed pos,   *)
(* or to end() if pos was last, and after erasing the first element head   *)
(* refers to that following node.                                          *)
C10_EraseReturn ==
    [][\A pos \in Elems :
          erase(pos) /\ next[pos] # NULL =>
             /\ ret' = next[pos]
             /\ pos = head => head' = next[pos]]_vars
(* seq with e put immediately before pos; pos not in seq stands for end() *)
InsertBefore(seq, pos, e) ==
    IF \E i \in 1..Len(seq) : seq[i] = pos
    THEN LET i == CHOOSE k \in 1..Len(seq) : seq[k] = pos
         IN  SubSeq(seq, 1, i - 1) \o <<e>> \o SubSeq(seq, i, Len(seq))
    ELSE Append(seq, e)

(* C11: insert(pos, elem) links elem immediately before the node at pos,   *)
(* keeps pos and all other elements in their order, increases size by      *)
(* exactly 1 and returns an iterator to elem.                              *)
C11_Insert ==
    [][\A pos \in Nodes, e \in Elems :
          insert(pos, e) /\ IterNow.ok =>
             /\ fault' = "none"
             /\ size' = size + 1
             /\ ret' = e
             /\ IterNow'.ok
             /\ IterNow'.elems = InsertBefore(IterNow.elems, pos, e)]_vars

(* What C12 compares: size, head, the sentinel and its links, iteration. *)
SameObservable(a, b) ==
    /\ a.fault = b.fault
    /\ a.size = b.size
    /\ a.head = b.head
    /\ a.tail = b.tail
    /\ a.prev[a.tail] = b.prev[b.tail]
    /\ a.next[a.tail] = b.next[b.tail]
    /\ Iterate(a) = Iterate(b)

(* C12: in every reachable state and for every unlinked elem,              *)
(* insert(end(), elem) and push_back(elem) give the same resulting state.  *)
C12_InsertEndIsPushBack ==
    \A e \in Elems :
       fault = "none" /\ End(st) # NULL /\ Unlinked(st, e) =>
          SameObservable(Insert(st, End(st), e), PushBack(st, e))

AfterPushBack(e) == PushBack(st, e)

(* C13: after clear() size == 0, head is the list's own sentinel and       *)
(* empty() is true; a push_back(elem) that follows yields a list of        *)
(* exactly one element, elem, with size == 1.                              *)
C13_Clear ==
    [][clear =>
          /\ fault' = "none"
          /\ size' = 0
          /\ Empty(st)'
          /\ tail' = tail
          /\ head' = tail'
          /\ \A e \in Elems :
                Unlinked(st, e)' =>
                   /\ AfterPushBack(e)'.fault = "none"
                   /\ AfterPushBack(e)'.size = 1
                   /\ Iterate(AfterPushBack(e))' = [elems |-> <<e>>, ok |-> TRUE]]_vars
IterOther == Iterate(OtherView)

(* clear() on `other` leaves this list's iteration as it is, and back *)
ClearsIndependent ==
    /\ Iterate([st EXCEPT !.prev = Clear(OtherView).prev,
                          !.next = Clear(OtherView).next]) = IterNow
    /\ Iterate([OtherView EXCEPT !.prev = Clear(st).prev,
                                 !.next = Clear(st).next]) = IterOther

(* C14: after a move (construction or assignment) the source has           *)
(* size == 0, its head is its own sentinel and its iteration is empty; the *)
(* destination's iteration yields the elements the source had, in order;   *)
(* the two do not share a sentinel, so clear() on either leaves the        *)
(* other's chain unchanged.                                                *)
C14_Move ==
    [][(move_construct \/ move_assign) /\ IterNow.ok =>
          /\ size' = 0
          /\ head' = tail' /\ tail' # NULL
          /\ IterNow' = [elems |-> <<>>, ok |-> TRUE]
          /\ IterOther' = [elems |-> IterNow.elems, ok |-> TRUE]
          /\ other'.tail # tail'
          /\ ClearsIndependent']_vars

(* seq with the sequence r put immediately before pos (end() if absent) *)
InsertSeqBefore(seq, pos, r) ==
    IF \E i \in 1..Len(seq) : seq[i] = pos
    THEN LET i == CHOOSE k \in 1..Len(seq) : seq[k] = pos
         IN  SubSeq(seq, 1, i - 1) \o r \o SubSeq(seq, i, Len(seq))
    ELSE seq \o r

Without(seq, r) ==
    SelectSeq(seq, LAMBDA x : \A i \in 1..Len(r) : r[i] # x)

(* C15: splice(pos, other, first, last) takes the range first..last out of *)
(* other and puts it before pos in this list in the same order; this       *)
(* list's size grows and other's shrinks by the number of moved elements.  *)
C15_Splice ==
    [][\A pos, first, last \in Nodes :
          (/\ splice(pos, first, last)
           /\ IterNow.ok /\ IterOther.ok) =>
             LET r == Range(OtherView, first, last).elems
             IN  /\ size' = size + Len(r)
                 /\ other'.size = other.size - Len(r)
                 /\ IterNow' = [elems |-> InsertSeqBefore(IterNow.elems, pos, r),
                                ok |-> TRUE]
                 /\ IterOther' = [elems |-> Without(IterOther.elems, r),
                                  ok |-> TRUE]]_vars
(* C16: unlink() is idempotent: for a node in any state, a second call     *)
(* leaves every node as the first call left it, and unlink() on an         *)
(* already-unlinked node changes nothing.                                  *)
C16_UnlinkIdempotent ==
    \A n \in Nodes :
       /\ Unlink(Unlink(st, n), n) = Unlink(st, n)
       /\ prev[n] = NULL /\ next[n] = NULL => Unlink(st, n) = st

(* A node linked in the middle of a chain, which unlink() takes out. *)
C16_Witness ==
    \E n \in Elems :
       /\ prev[n] \in Elems /\ next[n] \in Elems
       /\ prev[n] # n /\ next[n] # n
       /\ Unlink(st, n).next[prev[n]] = next[n]
       /\ Unlink(st, n) # st
(* C20: clear() terminates on every state reachable by push_back,          *)
(* push_front, pop_back, pop_front, insert and erase: the walk from head   *)
(* along next reaches null after finitely many steps, without a            *)
(* dereference of null.                                                    *)
C20_ClearTerminates == fault = "none" => Clear(st).fault = "none"

(* clear() walks a chain that runs into a cycle (push_front on an empty    *)
(* list makes the element its own next) and still ends.                    *)
C20_Witness ==
    /\ fault = "none"
    /\ \E e \in Elems :
          /\ e \in ReachFrom(st, Begin(st), {})
          /\ next[e] \in ReachFrom(st, Begin(st), {e}) \ {NULL}
          /\ Clear(st).next[e] = NULL
    /\ \A n \in ReachFrom(st, Begin(st), {}) :
          Clear(st).next[n] = NULL /\ Clear(st).prev[n] = NULL
IterB == Iterate(BView)

NodesA == Elems \cup {Sentinel}

NodesB == {TagB(e) : e \in Elems} \cup {SentinelB}

(* C17: an object with two differently-tagged link nodes can be in two     *)
(* lists at once, and an operation on the list of one tag leaves the       *)
(* prev/next fields of the other tag and the other list's size, head and   *)
(* iteration order unchanged.                                              *)
C17_TagFrame ==
    [][/\ StepB => /\ UNCHANGED <<head, tail, size>>
                   /\ \A n \in NodesA : prev'[n] = prev[n] /\ next'[n] = next[n]
                   /\ IterNow' = IterNow
       /\ StepA => /\ lb' = lb
                   /\ \A n \in NodesB : prev'[n] = prev[n] /\ next'[n] = next[n]
                   /\ IterB' = IterB]_vars

(* One element linked into both lists at once, after an operation on each. *)
C17_Witness ==
    /\ fault = "none"
    /\ \E e \in Tagged :
          /\ e \in ReachFrom(st, Begin(st), {})
          /\ TagB(e) \in ReachFrom(BView, Begin(BView), {})
          /\ size >= 1 /\ lb.size >= 1
          /\ \E f \in Tagged :
                f # e /\ Unlinked(BView, TagB(f)) /\ f \in ReachFrom(st, Begin(st), {})
(* The elements an operation takes out of the list *)
Removed(e) ==
    \/ pop_front /\ Holding /\ Held # <<>> /\ e = Head(Held)
    \/ pop_back /\ Holding /\ Held # <<>> /\ e = Last(Held)
    \/ erase(e)
    \/ clear /\ e \in ReachFrom(st, Begin(st), {})

(* A node is fully unlinked, or it is on the chain from head *)
UnlinkedOrInChain ==
    \A e \in Elems :
       \/ Unlinked(st, e)
       \/ e \in ReachFrom(st, Begin(st), {}) /\ (prev[e] # NULL \/ next[e] # NULL)

(* C18: an element removed by pop_front, pop_back, erase or clear (the     *)
(* destructor calls clear) is left with prev == next == null and no node   *)
(* of the list, nor head, nor the sentinel refers to it, so it can be      *)
(* pushed again; every node is always fully unlinked or in one chain.      *)
C18_RemovedIsUnlinked ==
    [][/\ \A e \in Elems : Removed(e) => fault' = "none" /\ Unlinked(st, e)'
       /\ UnlinkedOrInChain']_vars
(* C19: on a well-formed list ++ (prefix and postfix) moves an iterator to *)
(* its node's next and -- (prefix and postfix) to its node's prev, so ++   *)
(* then -- at a real element comes back to it, and -- at end() of a        *)
(* non-empty list gives the last element.                                  *)
C19_IteratorSteps ==
    [][WellFormed /\ it \in ValidPos(st) =>
          /\ pre_inc => it' = next[it]
          /\ post_inc => it' = next[it] /\ ret' = it
          /\ pre_dec /\ prev[it] # NULL => it' = prev[it]
          /\ post_dec /\ prev[it] # NULL => it' = prev[it] /\ ret' = it
          /\ it # End(st) => IterPrev(st, IterNext(st, it)) = it
          /\ (it = End(st) /\ IterNow.elems # <<>> /\ (pre_dec \/ post_dec)) =>
                it' = Last(IterNow.elems)]_vars
====
